---- MODULE Spec2Model ----
(***************************************************************************)
(* Model of the launcher scripts of rusty_boy (src/scripts/*.rs).          *)
(*                                                                         *)
(* Two independent pieces of logic are modelled:                           *)
(*   - find_available_port / port_is_in_use, duplicated in                 *)
(*     launch_pandocs.rs and launch_dmg01.rs  (specification SpecPort);    *)
(*   - save_bookmark / load_bookmark of rust_docs.rs (string page) and of  *)
(*     gb_ctr_book.rs (u32 page), with the commands of the two binaries    *)
(*     that call them  (specification SpecBookmark).                       *)
(***************************************************************************)
EXTENDS Integers, Sequences, FiniteSets

VARIABLES
    \* ---- port scan (find_available_port) ----
    start_port,   \* the argument of find_available_port
    listeners,    \* ports for which `lsof -i :port` currently finds something
    lsofRuns,     \* whether the lsof command can be spawned at all
    pc,           \* "scan" | "returned" | "exited"
    port,         \* the loop variable of `for port in start_port..=65535`
    probes,       \* the calls of port_is_in_use made so far, with their answers
    printed,      \* the port numbers printed in "Port {} is in use" messages
    ret,          \* the returned port (NoPort while none)
    envSteps,     \* number of changes of the host's listener table so far
    \* ---- bookmark files (save_bookmark / load_bookmark) ----
    files,        \* content of each bookmark file, Absent when it does not exist
    lastSave,     \* per file: the last save_bookmark call on it (NoSave when none)
    last,         \* the last command run: what it did and what its caller saw
    \* ---- gb-ctr-book: the book directory and what the last command did there ----
    book,         \* which of resources/gb-ctr, gbctr.pdf and config.json exist
    shown,        \* what the last command did with the book: target opened, exit
    \* ---- launch-pandocs and launch-dmg01 running side by side ----
    lpc,          \* per launcher: where its main is
    lport,        \* per launcher: the loop variable of its find_available_port
    lret,         \* per launcher: the port find_available_port returned (NoPort while none)
    \* ---- launch-all-docs ----
    apc,          \* where main of launch-all-docs is
    astep,        \* the number of the step main is at
    aarg,         \* its argument: "none", "help" or "unknown"
    started,      \* the binaries it has run or spawned so far, with the result of the call
    child,        \* per binary: the process `cargo run --bin <binary>` made for it
    \* ---- launch-pandocs: the Python environment under resources/pandocs ----
    venv,         \* whether the directory env exists
    marker,       \* modification time of env/.requirements_installed, None when absent
    reqs,         \* modification time of requirements.txt, None when absent
    now,          \* the clock that stamps files
    quiet,        \* no file was edited since the last run of launch-pandocs
    prun          \* the last run of launch-pandocs: what setup_python_env did

portVars == <<start_port, listeners, lsofRuns, pc, port, probes, printed, ret, envSteps>>
bookVars == <<files, lastSave, last>>
gbVars == <<book, shown>>
launchVars == <<lpc, lport, lret>>
allDocsVars == <<apc, astep, aarg, started, child>>
pyVars == <<venv, marker, reqs, now, quiet, prun>>
procVars == <<launchVars, allDocsVars, pyVars>>
vars == <<start_port, listeners, lsofRuns, pc, port, probes, printed, ret, envSteps,
          files, lastSave, last, book, shown, lpc, lport, lret,
          apc, astep, aarg, started, child,
          venv, marker, reqs, now, quiet, prun>>

(***************************************************************************)
(* Bounds of the model.                                                    *)
(***************************************************************************)
ScanSpan == 2      \* ports above the start port that may have a listener
MaxEnvSteps == 1   \* listener-table changes during one scan
MaxLen == 1
MaxClock == 4        \* length of the enumerated bookmark strings

(***************************************************************************)
(* Program constants.                                                      *)
(***************************************************************************)
MaxPort == 65535
PandocsStart == 3000
Dmg01Start == 3100

NoPort == 0 - 1

Min(a, b) == IF a < b THEN a ELSE b

(***************************************************************************)
(* Port scan.                                                              *)
(***************************************************************************)

\* The start ports: those of the two callers, and the ports from which the
\* range start_port..=65535 can be exhausted within the bounds.
StartPorts == {PandocsStart, Dmg01Start} \cup ((MaxPort - ScanSpan)..MaxPort)

\* The ports that may have a listener during a scan from s.
Window(s) == s..Min(s + ScanSpan, MaxPort)

\* port_is_in_use: lsof's exit status, false when lsof cannot be run.
port_is_in_use_AlwaysFree(p) == FALSE
port_is_in_use(p) == lsofRuns /\ p \in listeners

\* The first port of the range start_port..=65535.
FirstPort_Exclusive(s) == s + 1
FirstPort(s) == s

\* The port the inclusive range yields after p.
SuccPort_Skip(p) == p + 2
SuccPort(p) == p + 1

\* Whether p is the last port of start_port..=65535.
RangeEnd_Early(p) == p >= MaxPort - 1
RangeEnd(p) == p = MaxPort

InitPortVars ==
    /\ start_port \in StartPorts
    /\ listeners \in SUBSET Window(start_port)
    /\ lsofRuns \in BOOLEAN
    /\ pc = "scan"
    /\ port = FirstPort(start_port)
    /\ probes = <<>>
    /\ printed = <<>>
    /\ ret = NoPort
    /\ envSteps = 0

\* One iteration of the loop of find_available_port, and what follows the loop.
ScanStep ==
    /\ pc = "scan"
    /\ LET inUse == port_is_in_use(port) IN
       /\ probes' = Append(probes, [port |-> port, in_use |-> inUse])
       /\ IF ~inUse
          THEN /\ pc' = "returned"
               /\ ret' = port
               /\ UNCHANGED <<port, printed>>
          ELSE /\ printed' = IF port # start_port
                             THEN Append(printed, port - 1)
                             ELSE printed
               /\ ret' = NoPort
               /\ IF RangeEnd(port)
                  THEN pc' = "exited" /\ port' = port
                  ELSE pc' = "scan" /\ port' = SuccPort(port)
    /\ UNCHANGED <<start_port, listeners, lsofRuns, envSteps>>
    /\ UNCHANGED bookVars
    /\ UNCHANGED gbVars
    /\ UNCHANGED procVars

\* Another process of the host binds or releases a port while the scan runs.
ListenerChange ==
    /\ pc = "scan"
    /\ envSteps < MaxEnvSteps
    /\ \E p \in Window(start_port) :
          listeners' = IF p \in listeners THEN listeners \ {p} ELSE listeners \cup {p}
    /\ envSteps' = envSteps + 1
    /\ UNCHANGED <<start_port, lsofRuns, pc, port, probes, printed, ret>>
    /\ UNCHANGED bookVars
    /\ UNCHANGED gbVars
    /\ UNCHANGED procVars


(***************************************************************************)
(* Strings.  A string is a tuple of one-character strings, so that trim,   *)
(* parse and prefixes are computed character by character.                 *)
(***************************************************************************)
WhiteSpace == {" ", "\n"}
DigitChars == <<"0", "1", "2", "3", "4", "5", "6", "7", "8", "9">>
Digits == {DigitChars[i] : i \in 1..10}
DigitVal(c) == (CHOOSE i \in 1..10 : DigitChars[i] = c) - 1

\* The enumerated strings: every string over Alphabet of length <= MaxLen.
Alphabet == {" ", "4"}
Strings == UNION {[1..k -> Alphabet] : k \in 0..MaxLen}

\* The <page> arguments given to rust-docs: the enumerated strings and two
\* page paths, one of them with white space around and inside it.
RustPages ==
    Strings \cup { <<" ", "a", " ", "b", " ">>, <<"b", "/", "c", ".", "h">> }

\* The <page_number> arguments given to gb-ctr-book: the enumerated strings,
\* a number after a blank, signed and zero-padded numbers, u32::MAX and
\* u32::MAX + 1.
GbArgs ==
    Strings \cup
    { <<"4", "2">>, <<" ", "7">>, <<"0", "4">>, <<"+", "4">>, <<"-", "4">>,
      <<"4", "2", "9", "4", "9", "6", "7", "2", "9", "5">>,
      <<"4", "2", "9", "4", "9", "6", "7", "2", "9", "6">> }

\* Option values: None, or Some(x).
None == <<>>
Some(x) == <<x>>

\* A bookmark file: Absent, or Present with its content.  The content is a
\* string, or bytes that are no valid UTF-8 text (InvalidUtf8).
Absent == <<>>
Present(c) == <<c>>
InvalidUtf8 == <<"<invalid utf-8>">>

\* The two bookmark files: BOOKMARK_FILE of rust_docs.rs and of gb_ctr_book.rs,
\* both joined to the current directory.
RustLoc == ".rust_docs_bookmark"
GbLoc == ".gb_ctr_bookmark"
Locs == {RustLoc, GbLoc}

RECURSIVE TrimStart(_)
TrimStart(s) ==
    IF s = <<>> THEN s
    ELSE IF Head(s) \in WhiteSpace THEN TrimStart(Tail(s)) ELSE s

RECURSIVE TrimEnd(_)
TrimEnd(s) ==
    IF s = <<>> THEN s
    ELSE IF s[Len(s)] \in WhiteSpace THEN TrimEnd(SubSeq(s, 1, Len(s) - 1)) ELSE s

\* str::trim: leading and trailing white space removed, the rest kept.
Trim(s) == TrimEnd(TrimStart(s))

\* A u32 is held as the pair <<n \div 100000, n % 100000>>, so that every
\* value up to u32::MAX = 4294967295 is within the integers of the checker.
U32(hi, lo) == <<hi, lo>>
U32Max == U32(42949, 67295)
U32LessEq(a, b) == a[1] < b[1] \/ (a[1] = b[1] /\ a[2] <= b[2])

\* acc * 10 + d on the pair, as checked_mul(10) and checked_add(d) compute it.
MulAdd(acc, d) ==
    LET low == acc[2] * 10 + d IN
    U32(acc[1] * 10 + (low \div 100000), low % 100000)

\* str::parse::<u32>: an optional "+", then one or more decimal digits whose
\* value fits 32 bits; ParseErr otherwise.
ParseErr == <<>>

RECURSIVE ParseDigits(_, _)
ParseDigits(s, acc) ==
    IF s = <<>> THEN acc
    ELSE IF Head(s) \notin Digits THEN ParseErr
    ELSE LET n == MulAdd(acc, DigitVal(Head(s))) IN
         IF ~U32LessEq(n, U32Max) THEN ParseErr ELSE ParseDigits(Tail(s), n)

ParseU32(s) ==
    IF s = <<>> THEN ParseErr
    ELSE IF Head(s) \in {"+", "-"} /\ Len(s) = 1 THEN ParseErr
    ELSE IF Head(s) = "+" THEN ParseDigits(Tail(s), U32(0, 0))
    ELSE ParseDigits(s, U32(0, 0))

\* The decimal digits of k, without leading zeros.
RECURSIVE Decimal(_)
Decimal(k) ==
    IF k < 10 THEN <<DigitChars[k + 1]>>
    ELSE Append(Decimal(k \div 10), DigitChars[(k % 10) + 1])

\* The five decimal digits of k < 100000, leading zeros included.
Padded(k) ==
    <<DigitChars[(k \div 10000) + 1], DigitChars[((k \div 1000) % 10) + 1],
      DigitChars[((k \div 100) % 10) + 1], DigitChars[((k \div 10) % 10) + 1],
      DigitChars[(k % 10) + 1]>>

\* u32::to_string: the decimal digits, without sign or leading zeros.
ToString(n) ==
    IF n[1] = 0 THEN Decimal(n[2]) ELSE Decimal(n[1]) \o Padded(n[2])

(***************************************************************************)
(* save_bookmark.                                                          *)
(***************************************************************************)

\* fs::write(path, bytes) on a file in state old: the outcomes.
\*   ok           the file holds exactly bytes;
\*   open_failed  the file could not be created or opened (permissions,
\*                missing parent directory): it is left as it was;
\*   write_failed the file was created or truncated and the write then failed
\*                (disk full): it holds a proper prefix of bytes.
fs_write_Append(old, bytes) ==
    {[io |-> "ok",
      file |-> IF old = Absent \/ old = Present(InvalidUtf8)
               THEN Present(bytes) ELSE Present(old[1] \o bytes)]}
    \cup {[io |-> "open_failed", file |-> old]}
    \cup {[io |-> "write_failed", file |-> Present(SubSeq(bytes, 1, k))] :
             k \in 0..(Len(bytes) - 1)}
fs_write(old, bytes) ==
    {[io |-> "ok", file |-> Present(bytes)]}
    \cup {[io |-> "open_failed", file |-> old]}
    \cup {[io |-> "write_failed", file |-> Present(SubSeq(bytes, 1, k))] :
             k \in 0..(Len(bytes) - 1)}

\* What save_bookmark prints for the outcome of its write.
SaveMsg(io) == IF io = "ok" THEN "bookmarked" ELSE "warn_save"

\* What save_bookmark returns to main: its type is (), whatever the outcome
\* of the write.
SaveReturn_Err(io) == IF io = "ok" THEN "unit" ELSE "err"
SaveReturn(io) == "unit"

\* The record of a save_bookmark call: NoSave, a failed one, or the value saved.
NoSave == <<>>
FailedSave == <<"failed">>
Saved(v) == <<"ok", v>>

(***************************************************************************)
(* load_bookmark.                                                          *)
(***************************************************************************)

\* The outcome of bookmark_path.exists() and fs::read_to_string.
ReadOutcome(file) ==
    IF file = Absent THEN "missing"
    ELSE IF file = Present(InvalidUtf8) THEN "read_failed"
    ELSE "ok"

\* load_bookmark of rust_docs.rs on a file in state file.
RustLoad_NoTrim(file) ==
    IF ReadOutcome(file) = "ok" /\ file[1] # <<>> THEN Some(file[1]) ELSE None
RustLoad_NoEmptyCheck(file) ==
    IF ReadOutcome(file) = "ok" THEN Some(Trim(file[1])) ELSE None
RustLoad(file) ==
    IF ReadOutcome(file) = "ok"
    THEN LET bookmark == Trim(file[1]) IN
         IF bookmark # <<>> THEN Some(bookmark) ELSE None
    ELSE None

\* load_bookmark of gb_ctr_book.rs on a file in state file.
GbLoad_NoTrim(file) ==
    IF ReadOutcome(file) = "ok"
    THEN LET page == ParseU32(file[1]) IN
         IF page # ParseErr THEN Some(page) ELSE None
    ELSE None
GbLoad(file) ==
    IF ReadOutcome(file) = "ok"
    THEN LET page == ParseU32(Trim(file[1])) IN
         IF page # ParseErr THEN Some(page) ELSE None
    ELSE None

\* What load_bookmark prints.
LoadMsg(file, loaded) ==
    IF ReadOutcome(file) = "read_failed" THEN "warn_read"
    ELSE IF loaded # None THEN "resuming" ELSE "none"

\* The files after load_bookmark(loc): it writes nothing.
FilesAfterLoad_Create(loc) ==
    IF files[loc] = Absent THEN [files EXCEPT ![loc] = Present(<<>>)] ELSE files
FilesAfterLoad(loc) == files

(***************************************************************************)
(* The book of gb-ctr-book: GB_CTR_DIR and the files in it.                *)
(***************************************************************************)

\* The target open_pdf hands to the browser: the URL of the PDF, and the page
\* to show in it.  open_book takes no page: none is passed on.
PdfUrl == "file://<cwd>/resources/gb-ctr/gbctr.pdf"
OpenTarget(bookmark) == [url |-> PdfUrl, page |-> None]

\* The paths clean_build removes, when they exist.
CleanTargets_WithBookmark == {"gbctr.pdf", "config.json", GbLoc}
CleanTargets == {"gbctr.pdf", "config.json"}

\* What a command that does not touch the book leaves in shown.
NoShow == [did |-> "none", target |-> None, exit |-> 0]

\* open_book: get_gb_ctr_path, the check that the PDF exists, and open_pdf of
\* the target.  Whether the browser command succeeds changes only a message.
OpenBook(bookmark) ==
    IF ~book.dir THEN [did |-> "no_dir", target |-> None, exit |-> 1]
    ELSE IF ~book.pdf THEN [did |-> "no_pdf", target |-> None, exit |-> 1]
    ELSE [did |-> "open_pdf", target |-> Some(OpenTarget(bookmark)), exit |-> 0]

\* A bookmark command that is not of gb-ctr-book, or does not reach the book.
BookUntouched == book' = book /\ shown' = NoShow

(***************************************************************************)
(* The commands of rust-docs and gb-ctr-book that use the bookmark.        *)
(***************************************************************************)
Idle ==
    [bin |-> "none", cmd |-> "none", arg |-> <<>>, existed |-> FALSE, io |-> "none",
     msg |-> "none", returned |-> "none", loaded |-> None, opened |-> None,
     next |-> "none"]

\* The state a bookmark file may be in before the first command: absent, or
\* holding what an earlier run, a user's editor or a fault left there.
InitFiles(loc) ==
    IF loc = RustLoc
    THEN {Absent, Present(InvalidUtf8), Present(<<" ", "\n">>),
          Present(<<"b", "/", "c", ".", "h", "\n">>)}
    ELSE {Absent, Present(InvalidUtf8), Present(<<" ", "4", "2", "\n">>),
          Present(<<"+", "7", "\n">>),
          Present(<<"n", "o", "t", "-", "a", "-", "n", "u", "m", "b", "e", "r">>)}

InitBookVars ==
    /\ files \in {f \in [Locs -> UNION {InitFiles(l) : l \in Locs}] :
                    \A l \in Locs : f[l] \in InitFiles(l)}
    /\ lastSave = [l \in Locs |-> NoSave]
    /\ last = Idle

\* rust-docs save <page>
RustDocsSave ==
    /\ \E page \in RustPages : \E w \in fs_write(files[RustLoc], page) :
          /\ files' = [files EXCEPT ![RustLoc] = w.file]
          /\ lastSave' = [lastSave EXCEPT
                            ![RustLoc] = IF w.io = "ok" THEN Saved(page) ELSE FailedSave]
          /\ last' = [bin |-> "rust-docs", cmd |-> "save", arg |-> page,
                      existed |-> files[RustLoc] # Absent, io |-> w.io,
                      msg |-> SaveMsg(w.io), returned |-> SaveReturn(w.io),
                      loaded |-> None, opened |-> None, next |-> "return"]
    /\ UNCHANGED portVars
    /\ UNCHANGED procVars
    /\ BookUntouched

\* rust-docs save   (no page given)
RustDocsSaveUsage ==
    /\ last' = [bin |-> "rust-docs", cmd |-> "save", arg |-> <<>>, existed |-> FALSE,
                io |-> "none", msg |-> "usage", returned |-> "none", loaded |-> None,
                opened |-> None, next |-> "exit1"]
    /\ UNCHANGED <<files, lastSave>>
    /\ UNCHANGED portVars
    /\ UNCHANGED procVars
    /\ BookUntouched

\* rust-docs <page>   (page is none of save, list, help, --help, -h)
RustDocsPage ==
    /\ \E page \in RustPages : \E w \in fs_write(files[RustLoc], page) :
          /\ files' = [files EXCEPT ![RustLoc] = w.file]
          /\ lastSave' = [lastSave EXCEPT
                            ![RustLoc] = IF w.io = "ok" THEN Saved(page) ELSE FailedSave]
          /\ last' = [bin |-> "rust-docs", cmd |-> "page", arg |-> page,
                      existed |-> files[RustLoc] # Absent, io |-> w.io,
                      msg |-> SaveMsg(w.io), returned |-> SaveReturn(w.io),
                      loaded |-> None, opened |-> Some(page), next |-> "open"]
    /\ UNCHANGED portVars
    /\ UNCHANGED procVars
    /\ BookUntouched

\* rust-docs   (no arguments)
RustDocsNoArgs ==
    /\ LET bookmark == RustLoad(files[RustLoc]) IN
          last' = [bin |-> "rust-docs", cmd |-> "noargs", arg |-> <<>>,
                   existed |-> files[RustLoc] # Absent,
                   io |-> ReadOutcome(files[RustLoc]),
                   msg |-> LoadMsg(files[RustLoc], bookmark), returned |-> "none",
                   loaded |-> bookmark, opened |-> bookmark, next |-> "open"]
    /\ files' = FilesAfterLoad(RustLoc)
    /\ UNCHANGED lastSave
    /\ UNCHANGED portVars
    /\ UNCHANGED procVars
    /\ BookUntouched

\* gb-ctr-book save <page_number>
GbCtrSave ==
    /\ \E arg \in GbArgs :
          LET page == ParseU32(arg) IN
          IF page # ParseErr
          THEN \E w \in fs_write(files[GbLoc], ToString(page)) :
                  /\ files' = [files EXCEPT ![GbLoc] = w.file]
                  /\ lastSave' = [lastSave EXCEPT
                                    ![GbLoc] = IF w.io = "ok" THEN Saved(page)
                                               ELSE FailedSave]
                  /\ last' = [bin |-> "gb-ctr-book", cmd |-> "save", arg |-> arg,
                              existed |-> files[GbLoc] # Absent, io |-> w.io,
                              msg |-> SaveMsg(w.io), returned |-> SaveReturn(w.io),
                              loaded |-> None, opened |-> None, next |-> "return"]
          ELSE /\ last' = [bin |-> "gb-ctr-book", cmd |-> "save", arg |-> arg,
                           existed |-> FALSE, io |-> "none", msg |-> "invalid_page",
                           returned |-> "none", loaded |-> None, opened |-> None,
                           next |-> "exit1"]
               /\ UNCHANGED <<files, lastSave>>
    /\ UNCHANGED portVars
    /\ UNCHANGED procVars
    /\ BookUntouched

\* gb-ctr-book   (no arguments)
GbCtrNoArgs ==
    /\ LET bookmark == GbLoad(files[GbLoc]) IN
          last' = [bin |-> "gb-ctr-book", cmd |-> "noargs", arg |-> <<>>,
                   existed |-> files[GbLoc] # Absent,
                   io |-> ReadOutcome(files[GbLoc]),
                   msg |-> LoadMsg(files[GbLoc], bookmark), returned |-> "none",
                   loaded |-> bookmark, opened |-> None, next |-> "open"]
    /\ files' = FilesAfterLoad(GbLoc)
    /\ UNCHANGED lastSave
    /\ shown' = OpenBook(GbLoad(files[GbLoc]))
    /\ UNCHANGED book
    /\ UNCHANGED portVars
    /\ UNCHANGED procVars

\* What last holds after a gb-ctr-book command that uses no bookmark.
GbCmd(cmd) ==
    [bin |-> "gb-ctr-book", cmd |-> cmd, arg |-> <<>>, existed |-> FALSE, io |-> "none",
     msg |-> "none", returned |-> "none", loaded |-> None, opened |-> None,
     next |-> "none"]

\* gb-ctr-book open
GbCtrOpen ==
    /\ last' = GbCmd("open")
    /\ shown' = OpenBook(None)
    /\ UNCHANGED <<files, lastSave, book>>
    /\ UNCHANGED portVars
    /\ UNCHANGED procVars

\* gb-ctr-book build: `just build` in the book directory.  A build that
\* succeeds leaves the PDF; a build may leave config.json.
GbCtrBuild ==
    /\ last' = GbCmd("build")
    /\ IF ~book.dir
       THEN /\ shown' = [did |-> "no_dir", target |-> None, exit |-> 1]
            /\ UNCHANGED book
       ELSE \E just \in {"success", "failure", "not_run"}, cfg \in BOOLEAN :
               /\ book' = [dir |-> TRUE,
                           pdf |-> IF just = "success" THEN TRUE ELSE book.pdf,
                           config |-> IF just = "not_run" THEN book.config
                                      ELSE (book.config \/ cfg)]
               /\ shown' = [did |-> "build", target |-> None,
                            exit |-> IF just = "success" THEN 0 ELSE 1]
    /\ UNCHANGED <<files, lastSave>>
    /\ UNCHANGED portVars
    /\ UNCHANGED procVars

\* gb-ctr-book clean: every path of CleanTargets that exists is removed, unless
\* fs::remove_file fails on it (a warning).
GbCtrClean ==
    /\ last' = GbCmd("clean")
    /\ IF ~book.dir
       THEN /\ shown' = [did |-> "no_dir", target |-> None, exit |-> 1]
            /\ UNCHANGED <<book, files>>
       ELSE \E failing \in SUBSET CleanTargets :
               LET removed == CleanTargets \ failing IN
               /\ book' = [dir |-> TRUE,
                           pdf |-> book.pdf /\ "gbctr.pdf" \notin removed,
                           config |-> book.config /\ "config.json" \notin removed]
               /\ files' = [l \in Locs |-> IF l \in removed THEN Absent ELSE files[l]]
               /\ shown' = [did |-> "clean", target |-> None, exit |-> 0]
    /\ UNCHANGED lastSave
    /\ UNCHANGED portVars
    /\ UNCHANGED procVars

\* gb-ctr-book help, and gb-ctr-book <anything else>: the help text, and exit
\* status 1 for the unknown command.
GbCtrHelpOrUnknown ==
    /\ \E known \in BOOLEAN :
          /\ last' = GbCmd(IF known THEN "help" ELSE "unknown")
          /\ shown' = [did |-> "help", target |-> None, exit |-> IF known THEN 0 ELSE 1]
    /\ UNCHANGED <<files, lastSave, book>>
    /\ UNCHANGED portVars
    /\ UNCHANGED procVars

(***************************************************************************)
(* launch-pandocs and launch-dmg01 side by side, as launch-all-docs spawns *)
(* them: each finds a port with find_available_port, then runs             *)
(* `mdbook serve --port <port>` and waits for it.                          *)
(***************************************************************************)

Pandocs == "launch-pandocs"
Dmg01 == "launch-dmg01"
Launchers == {Pandocs, Dmg01}

\* The argument of find_available_port in each launcher's main.
StartOf(l) == IF l = Pandocs THEN PandocsStart ELSE Dmg01Start

\* The ports start..start+n-1.
PortsFrom(start, n) == start .. (start + n - 1)

\* The binaries launch-all-docs runs, in the order of its main.
Steps == <<"clone-resources", "rust-docs", Pandocs, Dmg01, "gb-ctr-book">>
Binaries == {Steps[i] : i \in 1..Len(Steps)}

\* launch-all-docs is not running.
AllDocsIdle ==
    /\ apc = "idle"
    /\ astep = 1
    /\ aarg = "none"
    /\ started = <<>>
    /\ child = [b \in Binaries |-> "none"]

\* launch-pandocs has not run; the Python environment is not there yet.
NoRun ==
    [decided |-> FALSE, markerAt |-> None, reqsAt |-> None, pip |-> "not_run",
     wrote |-> FALSE, retry |-> FALSE, exit |-> "none", goesOn |-> FALSE]

PyIdle ==
    /\ venv = FALSE
    /\ marker = None
    /\ reqs = Some(0)
    /\ now = 1
    /\ quiet = TRUE
    /\ prun = NoRun

\* No launcher is running.
ProcIdle ==
    /\ lpc = [l \in Launchers |-> "idle"]
    /\ lport = [l \in Launchers |-> StartOf(l)]
    /\ lret = [l \in Launchers |-> NoPort]
    /\ AllDocsIdle
    /\ PyIdle

\* One iteration of the launcher's find_available_port loop: a probe of the
\* loop's port; a free port is returned, a used one moves the loop on, and the
\* end of the range ends the process with status 1.
LaunchScan(l) ==
    /\ lpc[l] = "scan"
    /\ IF ~port_is_in_use(lport[l])
       THEN /\ lret' = [lret EXCEPT ![l] = lport[l]]
            /\ lpc' = [lpc EXCEPT ![l] = "serve"]
            /\ UNCHANGED lport
       ELSE IF RangeEnd(lport[l])
       THEN /\ lpc' = [lpc EXCEPT ![l] = "exit1"]
            /\ UNCHANGED <<lport, lret>>
       ELSE /\ lport' = [lport EXCEPT ![l] = SuccPort(lport[l])]
            /\ UNCHANGED <<lpc, lret>>
    /\ UNCHANGED <<start_port, listeners, lsofRuns, pc, port, probes, printed, ret, envSteps>>
    /\ UNCHANGED <<bookVars, gbVars>>
    /\ UNCHANGED allDocsVars
    /\ UNCHANGED pyVars

\* `mdbook serve --port <port>`: the server binds the port when nobody
\* listens on it, and then runs until it is stopped; otherwise mdbook fails
\* and the launcher exits with status 1.
LaunchServe(l) ==
    /\ lpc[l] = "serve"
    /\ \E runs \in BOOLEAN :
          IF runs /\ lret[l] \notin listeners
          THEN /\ listeners' = listeners \cup {lret[l]}
               /\ lpc' = [lpc EXCEPT ![l] = "serving"]
          ELSE /\ lpc' = [lpc EXCEPT ![l] = "exit1"]
               /\ UNCHANGED listeners
    /\ UNCHANGED <<lport, lret>>
    /\ UNCHANGED <<start_port, lsofRuns, pc, port, probes, printed, ret, envSteps>>
    /\ UNCHANGED <<bookVars, gbVars>>
    /\ UNCHANGED allDocsVars
    /\ UNCHANGED pyVars

\* The server is stopped (Ctrl+C): its port is free again and the launcher's
\* wait for mdbook ends.
LaunchStop(l) ==
    /\ lpc[l] = "serving"
    /\ listeners' = listeners \ {lret[l]}
    /\ lpc' = [lpc EXCEPT ![l] = "stopped"]
    /\ UNCHANGED <<lport, lret>>
    /\ UNCHANGED <<start_port, lsofRuns, pc, port, probes, printed, ret, envSteps>>
    /\ UNCHANGED <<bookVars, gbVars>>
    /\ UNCHANGED allDocsVars
    /\ UNCHANGED pyVars

(***************************************************************************)
(* launch-all-docs: main, run_command and run_command_background.          *)
(***************************************************************************)

\* Where main goes after the call for step i: to the next step, or to its end.
AfterStep(i) == IF i < Len(Steps) THEN "step" ELSE "done"
StepAfter(i) == IF i < Len(Steps) THEN i + 1 ELSE i

\* Where main goes when run_command / run_command_background could not start
\* the binary: a message is printed and main goes on.
AfterFailure_Exit(i) == "exit1"
AfterFailure(i) == AfterStep(i)

\* Everything outside launch-all-docs.
AllDocsFrame ==
    /\ UNCHANGED <<portVars, bookVars, gbVars, launchVars, pyVars>>

\* main up to the first step: help returns, any other argument prints the
\* help and exits with status 1, no argument goes on to step 1.
AllDocsMain ==
    /\ apc = "main"
    /\ apc' = CASE aarg = "help" -> "done"
                [] aarg = "unknown" -> "exit1"
                [] OTHER -> "step"
    /\ UNCHANGED <<astep, aarg, started, child>>
    /\ AllDocsFrame

\* Step 1, run_command("clone-resources"): Command::status starts the child
\* and waits for it; an Err is printed.
AllDocsRunClone ==
    /\ apc = "step" /\ astep = 1
    /\ \E ok \in BOOLEAN :
          /\ started' = Append(started, [bin |-> Steps[1], ok |-> ok])
          /\ IF ok
             THEN /\ child' = [child EXCEPT ![Steps[1]] = "running"]
                  /\ apc' = "wait"
                  /\ UNCHANGED astep
             ELSE /\ apc' = AfterFailure(1)
                  /\ astep' = StepAfter(1)
                  /\ UNCHANGED child
    /\ UNCHANGED aarg
    /\ AllDocsFrame

\* Command::status returns once the child has exited, whatever its status.
AllDocsCloneReturns ==
    /\ apc = "wait"
    /\ child[Steps[1]] \in {"exited_ok", "exited_failed"}
    /\ apc' = AfterStep(1)
    /\ astep' = StepAfter(1)
    /\ UNCHANGED <<aarg, started, child>>
    /\ AllDocsFrame

\* Steps 2..5, run_command_background: Command::spawn starts the child and
\* returns at once; an Err is printed.
AllDocsSpawn ==
    /\ apc = "step" /\ astep \in 2..Len(Steps)
    /\ \E ok \in BOOLEAN :
          /\ started' = Append(started, [bin |-> Steps[astep], ok |-> ok])
          /\ IF ok
             THEN /\ child' = [child EXCEPT ![Steps[astep]] = "running"]
                  /\ apc' = AfterStep(astep)
             ELSE /\ apc' = AfterFailure(astep)
                  /\ UNCHANGED child
    /\ astep' = StepAfter(astep)
    /\ UNCHANGED aarg
    /\ AllDocsFrame

\* A child process ends, with success or with a failure status.
ChildExits ==
    /\ \E b \in Binaries : \E status \in {"exited_ok", "exited_failed"} :
          /\ child[b] = "running"
          /\ child' = [child EXCEPT ![b] = status]
    /\ UNCHANGED <<apc, astep, aarg, started>>
    /\ AllDocsFrame

(***************************************************************************)
(* launch-pandocs: setup_python_env.                                       *)
(***************************************************************************)

\* Modification times: m is later than r.
Newer(m, r) == m[1] > r[1]

\* needs_install: the marker does not exist, or requirements.txt exists and
\* was modified after the marker.
NeedsInstall_MarkerOnly(m, r) == m = None
NeedsInstall(m, r) == m = None \/ (r # None /\ Newer(r, m))

\* Everything outside the Python environment of launch-pandocs.
PyFrame ==
    /\ UNCHANGED <<portVars, bookVars, gbVars, launchVars, allDocsVars>>

\* requirements.txt is written (created, edited or checked out): its
\* modification time is the time of the write.
EditRequirements ==
    /\ now < MaxClock
    /\ reqs' = Some(now)
    /\ now' = now + 1
    /\ quiet' = FALSE
    /\ UNCHANGED <<venv, marker, prun>>
    /\ PyFrame

\* requirements.txt is removed.
RemoveRequirements ==
    /\ reqs # None
    /\ reqs' = None
    /\ quiet' = FALSE
    /\ UNCHANGED <<venv, marker, now, prun>>
    /\ PyFrame

\* One run of launch-pandocs through setup_python_env: the virtual
\* environment is created when env is missing (a failure exits with status
\* 1); needs_install is computed (an error of metadata() is returned and main
\* panics); pip install runs when needed: a failure status exits with status
\* 1, an error of the command is returned; after a successful install the
\* marker is written (an error is returned).  Ok(()) lets main go on to mdbook.
PandocsRun ==
    /\ now < MaxClock
    /\ \E venvOk \in BOOLEAN, statOk \in BOOLEAN,
          pip \in {"success", "failed", "error"}, writeOk \in BOOLEAN :
          LET base == [NoRun EXCEPT !.retry = (prun.pip = "failed" /\ quiet)]
              stats == marker # None /\ reqs # None
              needs == NeedsInstall(marker, reqs)
              decided == [base EXCEPT !.decided = TRUE, !.markerAt = marker,
                                      !.reqsAt = reqs]
          IN
          IF ~venv /\ ~venvOk
          THEN /\ prun' = [base EXCEPT !.exit = "1"]
               /\ UNCHANGED <<venv, marker, now>>
          ELSE /\ venv' = TRUE
               /\ IF stats /\ ~statOk
                  THEN /\ prun' = [base EXCEPT !.exit = "panic"]
                       /\ UNCHANGED <<marker, now>>
                  ELSE IF ~needs
                  THEN /\ prun' = [decided EXCEPT !.exit = "none", !.goesOn = TRUE]
                       /\ UNCHANGED <<marker, now>>
                  ELSE IF pip = "failed"
                  THEN /\ prun' = [decided EXCEPT !.pip = pip, !.exit = "1"]
                       /\ UNCHANGED <<marker, now>>
                  ELSE IF pip = "error" \/ ~writeOk
                  THEN /\ prun' = [decided EXCEPT !.pip = pip, !.exit = "panic"]
                       /\ UNCHANGED <<marker, now>>
                  ELSE /\ prun' = [decided EXCEPT !.pip = pip, !.wrote = TRUE,
                                                  !.goesOn = TRUE]
                       /\ marker' = Some(now)
                       /\ now' = now + 1
    /\ quiet' = TRUE
    /\ UNCHANGED reqs
    /\ PyFrame

(***************************************************************************)
(* Specifications.                                                         *)
(***************************************************************************)
\* The book as it is once built: directory and PDF there, no config.json.
BookBuilt == [dir |-> TRUE, pdf |-> TRUE, config |-> FALSE]

InitPort ==
    /\ InitPortVars
    /\ files = [l \in Locs |-> Absent]
    /\ lastSave = [l \in Locs |-> NoSave]
    /\ last = Idle
    /\ book = BookBuilt
    /\ shown = NoShow
    /\ ProcIdle

NextPort == ScanStep \/ ListenerChange

SpecPort == InitPort /\ [][NextPort]_vars

\* No port scan is running.
PortIdle ==
    /\ start_port = PandocsStart
    /\ listeners = {}
    /\ lsofRuns = TRUE
    /\ pc = "idle"
    /\ port = PandocsStart
    /\ probes = <<>>
    /\ printed = <<>>
    /\ ret = NoPort
    /\ envSteps = 0

InitBookmark ==
    /\ InitBookVars
    /\ PortIdle
    /\ book = BookBuilt
    /\ shown = NoShow
    /\ ProcIdle

NextBookmark ==
    \/ RustDocsSave
    \/ RustDocsSaveUsage
    \/ RustDocsPage
    \/ RustDocsNoArgs
    \/ GbCtrSave
    \/ GbCtrNoArgs

SpecBookmark == InitBookmark /\ [][NextBookmark]_vars

\* The two launchers, both at their call of find_available_port.  The ports
\* bound before: a run of ports from 3000 on (none, one, all but the last
\* before 3100, or all of them) and any of the first ports from 3100 on.
InitLaunch ==
    /\ \E n \in {0, 1, Dmg01Start - PandocsStart - 1, Dmg01Start - PandocsStart} :
       \E more \in SUBSET PortsFrom(Dmg01Start, ScanSpan) :
          listeners = PortsFrom(PandocsStart, n) \cup more
    /\ lsofRuns \in BOOLEAN
    /\ start_port = PandocsStart
    /\ pc = "idle"
    /\ port = PandocsStart
    /\ probes = <<>>
    /\ printed = <<>>
    /\ ret = NoPort
    /\ envSteps = 0
    /\ files = [l \in Locs |-> Absent]
    /\ lastSave = [l \in Locs |-> NoSave]
    /\ last = Idle
    /\ book = BookBuilt
    /\ shown = NoShow
    /\ lpc = [l \in Launchers |-> "scan"]
    /\ lport = [l \in Launchers |-> FirstPort(StartOf(l))]
    /\ lret = [l \in Launchers |-> NoPort]
    /\ AllDocsIdle
    /\ PyIdle

NextLaunch ==
    \E l \in Launchers :
        \/ LaunchScan(l)
        \/ LaunchServe(l)
        \/ LaunchStop(l)

SpecLaunch == InitLaunch /\ [][NextLaunch]_vars

\* launch-all-docs, run with no argument, with help or with anything else.
InitAllDocs ==
    /\ PortIdle
    /\ files = [l \in Locs |-> Absent]
    /\ lastSave = [l \in Locs |-> NoSave]
    /\ last = Idle
    /\ book = BookBuilt
    /\ shown = NoShow
    /\ lpc = [l \in Launchers |-> "idle"]
    /\ lport = [l \in Launchers |-> StartOf(l)]
    /\ lret = [l \in Launchers |-> NoPort]
    /\ apc = "main"
    /\ astep = 1
    /\ aarg \in {"none", "help", "unknown"}
    /\ started = <<>>
    /\ child = [b \in Binaries |-> "none"]
    /\ PyIdle

NextAllDocs ==
    \/ AllDocsMain
    \/ AllDocsRunClone
    \/ AllDocsCloneReturns
    \/ AllDocsSpawn
    \/ ChildExits

SpecAllDocs == InitAllDocs /\ [][NextAllDocs]_vars

\* launch-pandocs run again and again while requirements.txt is edited.  At
\* first the environment may be missing, or there with or without a marker,
\* the marker older than, as old as or newer than requirements.txt.
InitPandocsEnv ==
    /\ PortIdle
    /\ files = [l \in Locs |-> Absent]
    /\ lastSave = [l \in Locs |-> NoSave]
    /\ last = Idle
    /\ book = BookBuilt
    /\ shown = NoShow
    /\ lpc = [l \in Launchers |-> "idle"]
    /\ lport = [l \in Launchers |-> StartOf(l)]
    /\ lret = [l \in Launchers |-> NoPort]
    /\ AllDocsIdle
    /\ venv \in BOOLEAN
    /\ marker \in {None} \cup (IF venv THEN {Some(t) : t \in 0..1} ELSE {})
    /\ reqs \in {None} \cup {Some(t) : t \in 0..1}
    /\ now = 2
    /\ quiet = TRUE
    /\ prun = NoRun

NextPandocsEnv ==
    \/ PandocsRun
    \/ EditRequirements
    \/ RemoveRequirements

SpecPandocsEnv == InitPandocsEnv /\ [][NextPandocsEnv]_vars

\* gb-ctr-book: every command of the binary, on every state of the book
\* directory, next to the load of rust-docs; both bookmarks start in any state.
InitGbCtr ==
    /\ InitBookVars
    /\ PortIdle
    /\ book \in [dir : BOOLEAN, pdf : BOOLEAN, config : BOOLEAN]
    /\ book.dir \/ (~book.pdf /\ ~book.config)
    /\ shown = NoShow
    /\ ProcIdle

NextGbCtr ==
    \/ GbCtrSave
    \/ GbCtrNoArgs
    \/ GbCtrOpen
    \/ GbCtrBuild
    \/ GbCtrClean
    \/ GbCtrHelpOrUnknown
    \/ RustDocsNoArgs

SpecGbCtr == InitGbCtr /\ [][NextGbCtr]_vars

(***************************************************************************)
(* Properties of the port scan (checked under SpecPort).                   *)
(***************************************************************************)
Range(f) == {f[i] : i \in DOMAIN f}
Probe(p, r) == [port |-> p, in_use |-> r]

\* C1: when find_available_port(start) returns p, then start <= p <= 65535,
\* the probe reported p as not bound and reported every port of [start, p-1]
\* as bound: p is the first free port in ascending order.
C1_ReturnsFirstFreePort ==
    pc = "returned" =>
        /\ start_port <= ret /\ ret <= MaxPort
        /\ probes[Len(probes)] = Probe(ret, FALSE)
        /\ \A q \in start_port..(ret - 1) : Probe(q, TRUE) \in Range(probes)
        /\ \A i \in 1..(Len(probes) - 1) : probes[i].in_use

C1_Witness ==
    /\ pc = "returned"
    /\ ret = start_port + 2
    /\ Probe(start_port + 1, TRUE) \in Range(probes)

\* C3: when the probe reports every port of [start, 65535] as bound, the scan
\* returns no port (the process exits with status 1) after exactly
\* 65535 - start + 1 probe calls, one per port, none repeated.
C3_ExhaustedRangeFails ==
    LET n == MaxPort - start_port + 1 IN
    /\ pc = "exited" =>
          /\ ret = NoPort
          /\ Len(probes) = n
          /\ \A i \in 1..n : probes[i] = Probe(start_port + i - 1, TRUE)
    /\ (Len(probes) = n /\ \A i \in 1..n : probes[i].in_use) => pc = "exited"

C3_Witness ==
    /\ pc = "exited"
    /\ start_port = MaxPort - 2
    /\ Len(probes) = 3

\* C5: the ports are probed in strictly ascending order from start, each once,
\* so that returning p costs exactly p - start + 1 probe calls (one call when
\* start itself is free).
C5_AscendingOneProbePerPort ==
    /\ \A i \in 1..Len(probes) : probes[i].port = start_port + i - 1
    /\ pc = "returned" => Len(probes) = ret - start_port + 1
    /\ (pc = "returned" /\ ~probes[1].in_use) => (ret = start_port /\ Len(probes) = 1)

\* 3000 and 3001 bound, 3002 free, start 3000: 3002 after exactly 3 probes.
C5_Witness ==
    /\ start_port = 3000
    /\ pc = "returned"
    /\ ret = 3002
    /\ probes = <<Probe(3000, TRUE), Probe(3001, TRUE), Probe(3002, FALSE)>>

(***************************************************************************)
(* Properties of the bookmark files (checked under SpecBookmark).          *)
(***************************************************************************)
IsSaved(loc) == Len(lastSave[loc]) = 2
SavedValue(loc) == lastSave[loc][2]

\* The last command was load_bookmark of rust-docs / of gb-ctr-book.  The
\* load writes nothing, so the file it read is the file of the current state.
RustLoaded == last.bin = "rust-docs" /\ last.cmd = "noargs"
GbLoaded == last.bin = "gb-ctr-book" /\ last.cmd = "noargs"

\* The last command called save_bookmark, and its write failed.
SaveFailed == last.cmd \in {"save", "page"} /\ last.io \in {"open_failed", "write_failed"}

IsText(file) == file # Absent /\ file # Present(InvalidUtf8)

\* C2 as stated: for any non-empty v, save(loc, v) followed by load(loc), with
\* no other save in between, returns Some(v.trim()).  (Stated here for saves
\* that succeeded.)
C2_RoundTripAnyNonEmpty ==
    (RustLoaded /\ IsSaved(RustLoc) /\ SavedValue(RustLoc) # <<>>) =>
        last.loaded = Some(Trim(SavedValue(RustLoc)))

\* C2, amended: for any v whose trimmed form is non-empty, a save(loc, v)
\* that succeeds followed by load(loc), with no other save in between,
\* returns Some(v.trim()); when v is white space only, load returns None.
C2_RoundTripTrimmedNonEmpty ==
    (RustLoaded /\ IsSaved(RustLoc)) =>
        LET v == SavedValue(RustLoc) IN
        /\ Trim(v) # <<>> => last.loaded = Some(Trim(v))
        /\ Trim(v) = <<>> => last.loaded = None
        /\ v = <<"b", "/", "c", ".", "h">> => last.loaded = Some(v)
        /\ v = <<" ", "a", " ", "b", " ">> => last.loaded = Some(<<"a", " ", "b">>)

C2_Witness ==
    /\ RustLoaded
    /\ lastSave[RustLoc] = Saved(<<" ", "a", " ", "b", " ">>)
    /\ last.loaded = Some(<<"a", " ", "b">>)

\* C4 as stated: load returns None when no storage exists or when the stored
\* content is empty after trimming; in every other case it returns the
\* trimmed stored string.
C4_NoneOnlyIfAbsentOrBlank ==
    RustLoaded =>
        LET f == files[RustLoc] IN
        IF f = Absent \/ (IsText(f) /\ Trim(f[1]) = <<>>)
        THEN last.loaded = None
        ELSE last.loaded # None /\ (IsText(f) => last.loaded = Some(Trim(f[1])))

\* C4, amended: load returns None when no storage exists, when the stored
\* content cannot be read as text, or when it is empty after trimming; in
\* every other case it returns the trimmed stored string.  A missing file
\* never makes load fail: main goes on to open the documentation.
C4_NoneIfAbsentUnreadableOrBlank ==
    RustLoaded =>
        LET f == files[RustLoc] IN
        /\ IF f = Absent \/ f = Present(InvalidUtf8) \/ Trim(f[1]) = <<>>
           THEN last.loaded = None
           ELSE last.loaded = Some(Trim(f[1]))
        /\ f = Present(<<" ", "\n">>) => last.loaded = None
        /\ f = Present(<<"b", "/", "c", ".", "h", "\n">>)
              => last.loaded = Some(<<"b", "/", "c", ".", "h">>)
        /\ f = Absent => (last.io = "missing" /\ last.next = "open"
                          /\ last.opened = None)

C4_Witness ==
    /\ RustLoaded
    /\ files[RustLoc] = Present(InvalidUtf8)
    /\ last.io = "read_failed"
    /\ last.loaded = None

\* The file a command of bin works on, and the bytes its save_bookmark writes
\* for the argument arg.
LocOf(bin) == IF bin = "rust-docs" THEN RustLoc ELSE GbLoc
BytesOf(bin, arg) == IF bin = "rust-docs" THEN arg ELSE ToString(ParseU32(arg))
IsProperPrefix(s, t) == Len(s) < Len(t) /\ s = SubSeq(t, 1, Len(s))

\* What load_bookmark of bin returns on a file.
LoadOf(bin, file) == IF bin = "rust-docs" THEN RustLoad(file) ELSE GbLoad(file)

C7_SaveAtomic ==
    [][last'.cmd \in {"save", "page"} /\ last'.io # "none" =>
          LET bin == last'.bin
              loc == LocOf(bin)
          IN  LoadOf(bin, files'[loc]) \in
                 {LoadOf(bin, files[loc]),
                  LoadOf(bin, Present(BytesOf(bin, last'.arg)))}]_vars

\* C8: for the numeric page bookmark, a stored value that parses as an integer
\* after trimming loads as that integer; a stored value that does not parse
\* (hand-edited or corrupted content) loads as no bookmark, and the launcher
\* goes on to open the book.
C8_NumericBookmarkParseOrNone ==
    GbLoaded =>
        LET f == files[GbLoc] IN
        /\ last.next = "open"
        /\ IsText(f) =>
              LET t == Trim(f[1])
                  d == IF t # <<>> /\ Head(t) = "+" THEN Tail(t) ELSE t
              IN  IF d # <<>> /\ (\A i \in 1..Len(d) : d[i] \in Digits)
                     /\ U32LessEq(ParseDigits(d, U32(0, 0)), U32Max)
                  THEN last.loaded = Some(ParseDigits(d, U32(0, 0)))
                  ELSE last.loaded = None
        /\ f = Present(<<"+", "7", "\n">>) => last.loaded = Some(U32(0, 7))
        /\ f = Present(<<" ", "4", "2", "\n">>) => last.loaded = Some(U32(0, 42))
        /\ f = Present(<<"4", "2">>) => last.loaded = Some(U32(0, 42))
        /\ f = Present(<<"n", "o", "t", "-", "a", "-", "n", "u", "m", "b", "e", "r">>)
              => last.loaded = None
        /\ f = Present(InvalidUtf8) => last.loaded = None
        /\ f = Present(<<>>) => last.loaded = None

C8_Witness ==
    /\ GbLoaded
    /\ files[GbLoc] = Present(<<"n", "o", "t", "-", "a", "-", "n", "u", "m", "b", "e", "r">>)
    /\ last.loaded = None
    /\ last.next = "open"

C8_WitnessNumber ==
    /\ GbLoaded
    /\ files[GbLoc] = Present(<<" ", "4", "2", "\n">>)
    /\ last.loaded = Some(U32(0, 42))

\* C9: at most one bookmark value exists per location: after a successful
\* save the file holds exactly the value of the most recent save, nothing of
\* earlier values, and load returns that value trimmed.
C9_FileHoldsMostRecentSave ==
    /\ IsSaved(RustLoc) =>
          LET v == SavedValue(RustLoc) IN
          /\ files[RustLoc] = Present(v)
          /\ RustLoaded => last.loaded = (IF Trim(v) = <<>> THEN None ELSE Some(Trim(v)))
    /\ IsSaved(GbLoc) =>
          LET n == SavedValue(GbLoc) IN
          /\ files[GbLoc] # Absent
          /\ ParseU32(files[GbLoc][1]) = n
          /\ Head(files[GbLoc][1]) = "0" => Len(files[GbLoc][1]) = 1
          /\ \A i \in 1..Len(files[GbLoc][1]) : files[GbLoc][1][i] \in Digits
          /\ n = U32(0, 4) => files[GbLoc] = Present(<<"4">>)
          /\ n = U32Max =>
                files[GbLoc] = Present(<<"4", "2", "9", "4", "9", "6", "7", "2", "9", "5">>)
          /\ GbLoaded => last.loaded = Some(n)

\* A successful save onto a file that already held another value.
C9_Witness ==
    /\ last.bin = "gb-ctr-book" /\ last.cmd = "save"
    /\ last.io = "ok" /\ last.existed
    /\ last.arg = <<"0", "4">>
    /\ lastSave[GbLoc] = Saved(U32(0, 4))
    /\ files[GbLoc] = Present(<<"4">>)

\* C10: load is a pure read: calling load leaves the backing storage of that
\* location and of every other location unchanged, and does not create the
\* storage when it is absent.
C10_LoadIsPureRead ==
    [][last'.cmd = "noargs" =>
          /\ files' = files
          /\ lastSave' = lastSave
          /\ \A l \in Locs : files[l] = Absent => files'[l] = Absent]_vars

C10_Witness ==
    /\ GbLoaded
    /\ last.io = "missing"
    /\ files[GbLoc] = Absent
    /\ files[RustLoc] # Absent


(***************************************************************************)
(* gb-ctr-book: clean, and the page the book is opened at.                 *)
(***************************************************************************)

\* The last command was gb-ctr-book clean and it reached the removals.
Cleaned == last.cmd = "clean" /\ shown.did = "clean"

\* The last command was gb-ctr-book without arguments, it loaded a page from
\* the bookmark and it opened the PDF.
OpenedFromBookmark ==
    GbLoaded /\ last.loaded # None /\ shown.did = "open_pdf"

\* C11: no step of any command (save, load, build, open, clean, help of
\* gb-ctr-book, and the load of rust-docs) takes a bookmark location that is
\* Present back to Absent: the bookmark storage is never deleted.
C11_PresentNeverDeleted ==
    [][\A l \in Locs : files[l] # Absent => files'[l] # Absent]_vars

\* gb-ctr-book clean has removed the PDF and config.json, and both bookmarks
\* are still there.
C11_Witness ==
    /\ Cleaned
    /\ ~book.pdf /\ ~book.config
    /\ \A l \in Locs : files[l] # Absent

\* C12: when gb-ctr-book without arguments loads a valid page from the bookmark
\* and opens the book, the target it opens is at that page, so that two runs
\* that differ only in the stored page open different targets.
C12_OpensAtBookmarkedPage ==
    OpenedFromBookmark => shown.target[1].page = last.loaded


(***************************************************************************)
(* The ports of the two launchers.                                         *)
(***************************************************************************)

\* The launcher has a port from find_available_port and has not ended.
HoldsPort(l) == lpc[l] \in {"serve", "serving"}

\* C14: launch-pandocs (scanning from 3000) and launch-dmg01 (scanning from
\* 3100), run side by side, never hold the same selected port for their
\* mdbook servers, whatever the interleaving and the ports bound before.
C14_LaunchersSelectDistinctPorts ==
    (HoldsPort(Pandocs) /\ HoldsPort(Dmg01)) => lret[Pandocs] # lret[Dmg01]


(***************************************************************************)
(* launch-all-docs: the order of its steps.                                *)
(***************************************************************************)

\* main of launch-all-docs has ended.
AllDocsEnded == apc \in {"done", "exit1"}

\* C15: with no argument, launch-all-docs calls its binaries in the order
\* clone-resources, rust-docs, launch-pandocs, launch-dmg01, gb-ctr-book, each
\* once; clone-resources is no longer running when a launcher is started; a
\* launcher is started whether or not the earlier ones have ended, and a
\* failure of a step does not stop the later ones: main ends only after all
\* five, with status 0.  With an unknown argument it exits with status 1 and
\* starts nothing.
C15_StepsInFixedOrder ==
    /\ Len(started) <= Len(Steps)
    /\ \A i \in 1..Len(started) : started[i].bin = Steps[i]
    /\ Len(started) >= 2 => child[Steps[1]] # "running"
    /\ (aarg = "none" /\ AllDocsEnded) => (apc = "done" /\ Len(started) = Len(Steps))
    /\ (aarg = "none" /\ apc = "step") => Len(started) = astep - 1
    /\ (aarg = "unknown" /\ apc # "main") =>
          /\ apc = "exit1"
          /\ started = <<>>
          /\ \A b \in Binaries : child[b] = "none"

\* main has ended after all five steps although clone-resources failed and
\* launch-pandocs could not be spawned, and rust-docs, launch-dmg01 and
\* gb-ctr-book run at the same time.
C15_Witness ==
    /\ aarg = "none" /\ apc = "done"
    /\ child[Steps[1]] = "exited_failed"
    /\ ~started[3].ok
    /\ child["rust-docs"] = "running"
    /\ child[Dmg01] = "running"
    /\ child["gb-ctr-book"] = "running"

\* With an unknown argument main has exited with status 1.
C15_WitnessUnknown == aarg = "unknown" /\ apc = "exit1"


(***************************************************************************)
(* launch-pandocs: the marker of the installed requirements.               *)
(***************************************************************************)

\* The marker is absent, or requirements.txt is there and newer than it.
MarkerAbsentOrStale(m, r) ==
    m = None \/ (r # None /\ m # None /\ r[1] > m[1])

\* The step is a run of launch-pandocs: only a run leaves quiet true.
IsPandocsRun == quiet'

\* C16: across any sequence of runs of launch-pandocs, (1) the marker changes
\* only in a run whose pip install exited successfully; (2) a run that gets to
\* the decision installs exactly when the marker is absent or requirements.txt
\* is newer than the marker; (3) a failed install exits with status 1 without
\* going on to mdbook and leaves the marker as it was, so that an install is
\* still needed; (4) the run that follows a failed install, with no file edited
\* in between, attempts the install again if it gets to the decision.
C16_MarkerOnlyAfterSuccessfulInstall ==
    [][/\ marker' # marker =>
             (IsPandocsRun /\ prun'.pip = "success" /\ prun'.wrote /\ marker' # None)
       /\ prun'.decided =>
             (prun'.pip # "not_run" <=> MarkerAbsentOrStale(prun'.markerAt, prun'.reqsAt))
       /\ prun'.pip = "failed" =>
             /\ prun'.exit = "1" /\ ~prun'.goesOn /\ ~prun'.wrote
             /\ (IsPandocsRun =>
                    /\ marker' = marker
                    /\ MarkerAbsentOrStale(marker', reqs'))
       /\ (prun'.retry /\ prun'.decided) => prun'.pip # "not_run"
      ]_vars

\* A run whose install failed was followed by a run that installed again,
\* with success, and wrote the marker: requirements.txt is older than it.
C16_Witness ==
    /\ prun.retry /\ prun.pip = "success" /\ prun.wrote
    /\ prun.markerAt # None /\ prun.reqsAt # None
    /\ marker # None /\ reqs # None /\ marker[1] > reqs[1]

\* A run found the marker up to date and installed nothing.
C16_WitnessUpToDate ==
    prun.decided /\ prun.pip = "not_run" /\ prun.goesOn /\ marker # None

====
